---------------------------- MODULE Spec2Model ----------------------------
(***************************************************************************)
(* A model of tornado/httpserver.py: one HTTPConnection driven by its      *)
(* IOStream (header and body arrivals, write completions, peer close), by  *)
(* the IOLoop (the idle timer) and by the request callback (the handler,   *)
(* which calls HTTPRequest.write and HTTPRequest.finish); the HTTPServer   *)
(* that listens, accepts and is stopped; and the remote_ip and arguments   *)
(* of the HTTPRequest a connection builds.                                 *)
(*                                                                         *)
(* Every action is one callback or one method call of the source, run to   *)
(* completion: the server is single-threaded, so callbacks never overlap.  *)
(***************************************************************************)
EXTENDS Integers, Sequences, FiniteSets, TLC

(***************************************************************************)
(* Bounds of the model.                                                    *)
(***************************************************************************)
\* header blocks delivered on the connection
MaxRequests == 2
\* write() calls of the handler per request
MaxWrites == 2

(***************************************************************************)
(* Values.                                                                 *)
(***************************************************************************)
\* headers.get(name) of a header the client did not send (Python's None)
None == "None"
\* self.stream.max_buffer_size, scaled down; "9" below exceeds it
max_buffer_size == 2
\* connection_timeout of a server with the idle timeout configured
TimeoutSeconds == 5

Methods == {"GET", "HEAD", "POST"}
Versions == {"HTTP/1.1", "HTTP/1.0", "XTTP/1.1"}
ConnectionValues == {None, "close", "Keep-Alive", "keep-alive"}
ContentLengthValues == {None, "", "0", "1", "9"}
ExpectValues == {None, "100-continue"}
\* the chunk of the handler's k-th write() for a request: the bytes are the
\* handler's own, and no two writes of a request pass the same
Chunk(k) == <<"chunk", k>>
\* the interim response of line 385
Continue100 == <<"HTTP/1.1 100 (Continue)\r\n\r\n", 0>>

\* the request lines a client sends: three tokens, or two, or four
StartLines ==
    {<<m, "/", v>> : m \in Methods, v \in Versions}
        \cup {<<"GET", "/">>, <<"GET", "/", "HTTP/1.1", "x">>}

HeaderBlocks ==
    [Connection : ConnectionValues,
     ContentLength : ContentLengthValues,
     Expect : ExpectValues]

VARIABLES
    \* HTTPServer configuration handed to the connection
    no_keep_alive,        \* self.no_keep_alive
    connection_timeout,   \* self.connection_timeout (-1: disabled)
    \* HTTPConnection
    request,              \* self._request: <<>> is None, <<r>> a Request
    request_finished,     \* self._request_finished
    timeout_handle,       \* self._timeout_handle: None, or the state of the
                          \* timeout it names: "live", "fired" or "removed"
    \* IOStream
    closed,               \* stream.closed()
    read_callback,        \* the outstanding read: None, "headers" or "body"
    read_bytes,           \* the length asked of an outstanding read_bytes
    write_buffer,         \* chunks handed to the stream and not yet sent
    write_callback,       \* whether the pending write carries a callback
    \* IOLoop
    timers,               \* timeouts of this connection scheduled on the loop
    \* the request callback
    handler,              \* "idle", "active" (dispatched) or "finished"
    seen,                 \* the Request the handler is working on, <<>> if none
    \* history
    calls,                \* the calls the connection made on the stream and
                          \* on the handler since the last header block
    written,              \* chunks the handler passed to write() on an open stream
    nheaders,             \* header blocks delivered
    ncomplete,            \* well-formed requests completely read
    ncalls,               \* request_callback invocations
    nfinished,            \* completed finish procedures
    already_reading,      \* a read was asked while another was outstanding
    rearmed,              \* the callback or call that ran last called add_timeout
    ev,                   \* the callback or call that ran last, with its input
    \* HTTPServer
    server,               \* the listener: its fields, and the sockets and
                          \* accept handlers it has with the system and the loop
    \* HTTPRequest
    built                 \* the arguments of a Request and the Request built

connVars == <<request, request_finished, timeout_handle>>
streamVars == <<closed, read_callback, read_bytes, write_buffer, write_callback>>
cfgVars == <<no_keep_alive, connection_timeout>>
histVars == <<calls, written, nheaders, ncomplete, ncalls, nfinished,
              already_reading, rearmed>>
vars == <<cfgVars, connVars, streamVars, timers, handler, seen, histVars, ev,
          server, built>>

(***************************************************************************)
(* The state the methods read and write, as one record.  Each method of    *)
(* the source is an operator from the record before the call to the record *)
(* after it; an action applies one callback to the current record.         *)
(***************************************************************************)
Cur ==
    [request |-> request,
     request_finished |-> request_finished,
     timeout_handle |-> timeout_handle,
     closed |-> closed,
     read_callback |-> read_callback,
     read_bytes |-> read_bytes,
     write_buffer |-> write_buffer,
     write_callback |-> write_callback,
     timers |-> timers,
     handler |-> handler,
     seen |-> seen,
     calls |-> calls,
     ncalls |-> ncalls,
     nfinished |-> nfinished,
     already_reading |-> already_reading,
     rearmed |-> FALSE]

Becomes(t) ==
    /\ request' = t.request
    /\ request_finished' = t.request_finished
    /\ timeout_handle' = t.timeout_handle
    /\ closed' = t.closed
    /\ read_callback' = t.read_callback
    /\ read_bytes' = t.read_bytes
    /\ write_buffer' = t.write_buffer
    /\ write_callback' = t.write_callback
    /\ timers' = t.timers
    /\ handler' = t.handler
    /\ seen' = t.seen
    /\ calls' = t.calls
    /\ ncalls' = t.ncalls
    /\ nfinished' = t.nfinished
    /\ already_reading' = t.already_reading
    /\ rearmed' = t.rearmed

(***************************************************************************)
(* IOStream, as the connection uses it.                                    *)
(***************************************************************************)
\* stream.writing(): bytes handed to the stream are still to be sent
writing(s) == s.write_buffer # <<>>

\* an entry of the log of calls
Call(op, arg) == [op |-> op, arg |-> arg]

\* stream.close(): no callback of the stream runs afterwards
stream_close(s) ==
    [s EXCEPT !.closed = TRUE, !.calls = Append(@, Call("close", None))]

\* stream.read_until(b("\r\n\r\n"), self._header_callback): one read at a time
stream_read_until(s) ==
    LET t == [s EXCEPT !.calls = Append(@, Call("read_until", None))]
    IN IF t.read_callback # None THEN [t EXCEPT !.already_reading = TRUE]
       ELSE IF t.closed THEN t
       ELSE [t EXCEPT !.read_callback = "headers"]

\* stream.read_bytes(n, self._on_request_body)
stream_read_bytes(s, n) ==
    LET t == [s EXCEPT !.calls = Append(@, Call("read_bytes", n))]
    IN IF t.read_callback # None THEN [t EXCEPT !.already_reading = TRUE]
       ELSE IF t.closed THEN t
       ELSE [t EXCEPT !.read_callback = "body", !.read_bytes = n]

\* stream.write(chunk, callback): the callback given last is the one that
\* runs, once, when the write buffer has drained
stream_write(s, chunk, callback) ==
    [s EXCEPT !.write_buffer = Append(@, chunk),
              !.write_callback = callback,
              !.calls = Append(@, Call("write", chunk))]

(***************************************************************************)
(* HTTPRequest.                                                            *)
(***************************************************************************)
HTTPRequest(method, uri, version, headers) ==
    [method |-> method, uri |-> uri, version |-> version,
     headers |-> headers, body |-> <<>>]

supports_http_1_1(r) == r.version = "HTTP/1.1"

(***************************************************************************)
(* HTTPConnection.                                                         *)
(***************************************************************************)
remove_connection_timeout(s) ==
    IF s.timeout_handle # None
    THEN IF s.timeout_handle = "live"
         THEN [s EXCEPT !.timers = @ - 1, !.timeout_handle = "removed"]
         ELSE s
    ELSE s

\* a re-arm that does not cancel the timer scheduled before
reset_keeps_previous(s) ==
    IF connection_timeout = -1 THEN s
    ELSE [s EXCEPT !.timers = @ + 1, !.timeout_handle = "live",
                   !.rearmed = TRUE]

reset_connection_timeout(s) ==
    IF connection_timeout = -1 THEN s
    ELSE LET r == remove_connection_timeout(s)
         IN [r EXCEPT !.timers = @ + 1, !.timeout_handle = "live",
                      !.rearmed = TRUE]

\* the fields before HTTPConnection.__init__ has run, on a fresh stream
Unconnected ==
    [request |-> <<>>,
     request_finished |-> FALSE,
     timeout_handle |-> None,
     closed |-> FALSE,
     read_callback |-> None,
     read_bytes |-> 0,
     write_buffer |-> <<>>,
     write_callback |-> FALSE,
     timers |-> 0,
     handler |-> "idle",
     seen |-> <<>>,
     calls |-> <<>>,
     ncalls |-> 0,
     nfinished |-> 0,
     already_reading |-> FALSE,
     rearmed |-> FALSE]

\* HTTPConnection.__init__ on a fresh stream
NewConnection ==
    reset_connection_timeout(stream_read_until(Unconnected))

\* _handle_timeout that arms the timer again whenever the stream is open
handle_timeout_rearms(s) ==
    IF s.closed THEN s ELSE reset_connection_timeout(s)

\* _handle_timeout that closes an open stream without asking stream.writing()
handle_timeout_preempts(s) ==
    IF s.closed THEN s ELSE stream_close(s)

handle_timeout(s) ==
    IF s.closed THEN s
    ELSE IF writing(s) THEN reset_connection_timeout(s)
    ELSE stream_close(s)

\* the keep-alive decision that compares the Connection header without
\* regard to case
Disconnect_caseless(req) ==
    IF no_keep_alive THEN TRUE
    ELSE LET r == req[1]
             connection_header == r.headers.Connection
         IN IF supports_http_1_1(r) THEN connection_header = "close"
            ELSE IF r.headers.ContentLength # None
                    \/ r.method \in {"HEAD", "GET"}
                 THEN connection_header \notin {"Keep-Alive", "keep-alive"}
                 ELSE TRUE

\* the keep-alive decision of _finish_request, lines 342-352
Disconnect(req) ==
    IF no_keep_alive THEN TRUE
    ELSE LET r == req[1]
             connection_header == r.headers.Connection
         IN IF supports_http_1_1(r) THEN connection_header = "close"
            ELSE IF r.headers.ContentLength # None
                    \/ r.method \in {"HEAD", "GET"}
                 THEN connection_header # "Keep-Alive"
                 ELSE TRUE

\* _finish_request that keeps the connection and schedules no header read
finish_request_no_read(s) ==
    IF ~no_keep_alive /\ s.request = <<>> THEN s
    ELSE LET disconnect == Disconnect(s.request)
             t == [s EXCEPT !.request = <<>>,
                            !.request_finished = FALSE,
                            !.nfinished = @ + 1]
         IN IF disconnect THEN stream_close(t)
            ELSE reset_connection_timeout(t)

finish_request(s) ==
    IF ~no_keep_alive /\ s.request = <<>> THEN s   \* None has no headers
    ELSE LET disconnect == Disconnect(s.request)
             t == [s EXCEPT !.request = <<>>,
                            !.request_finished = FALSE,
                            !.nfinished = @ + 1]
         IN IF disconnect THEN stream_close(t)
            ELSE stream_read_until(reset_connection_timeout(t))

\* write() that does not ask stream.closed()
write_to_closed(s, chunk) ==
    IF s.request = <<>> THEN s
    ELSE stream_write(s, chunk, TRUE)

\* write() that drops a chunk when the stream is still writing
write_drops_when_busy(s, chunk) ==
    IF s.request = <<>> THEN s
    ELSE IF ~s.closed /\ ~writing(s) THEN stream_write(s, chunk, TRUE)
    ELSE s

write(s, chunk) ==
    IF s.request = <<>> THEN s                      \* assert: "Request closed"
    ELSE IF ~s.closed THEN stream_write(s, chunk, TRUE)
    ELSE s

\* finish() that runs the finish procedure without asking stream.writing()
finish_while_writing(s) ==
    IF s.request = <<>> THEN s
    ELSE finish_request([s EXCEPT !.request_finished = TRUE])

finish(s) ==
    IF s.request = <<>> THEN s                      \* assert: "Request closed"
    ELSE LET t == [s EXCEPT !.request_finished = TRUE]
         IN IF ~writing(t) THEN finish_request(t) ELSE t

on_write_complete(s) ==
    IF s.request_finished THEN finish_request(s) ELSE s

\* self.request_callback(self._request): the handler is given the Request
request_callback(s) ==
    [s EXCEPT !.handler = "active", !.seen = s.request, !.ncalls = @ + 1,
              !.calls = Append(@, Call("request_callback", None))]

\* version.startswith("HTTP/")
StartsWithHTTP(version) == version \in {"HTTP/1.1", "HTTP/1.0"}

\* int(content_length)
int(str) ==
    CASE str = "0" -> 0
      [] str = "1" -> 1
      [] str = "9" -> 9

\* Python's truth of headers.get("Content-Length")
Truthy(str) == str # None /\ str # ""

\* _on_headers that answers "Expect: 100-continue" before it looks at the
\* length
on_headers_continue_first(s, start_line, headers) ==
    LET t0 == reset_connection_timeout(s)
    IN IF Len(start_line) # 3 THEN stream_close(t0)
       ELSE LET method == start_line[1]
                uri == start_line[2]
                version == start_line[3]
            IN IF ~StartsWithHTTP(version) THEN stream_close(t0)
               ELSE LET t1 == [t0 EXCEPT !.request =
                                   <<HTTPRequest(method, uri, version, headers)>>]
                        content_length == headers.ContentLength
                    IN IF Truthy(content_length)
                       THEN LET t2 == IF headers.Expect = "100-continue"
                                      THEN stream_write(t1, Continue100, FALSE)
                                      ELSE t1
                            IN IF int(content_length) > max_buffer_size
                               THEN stream_close(t2)
                               ELSE stream_read_bytes(t2, int(content_length))
                       ELSE request_callback(t1)

\* _on_headers that answers "Expect: 100-continue" after it has scheduled the
\* body read
on_headers_continue_late(s, start_line, headers) ==
    LET t0 == reset_connection_timeout(s)
    IN IF Len(start_line) # 3 THEN stream_close(t0)
       ELSE LET method == start_line[1]
                uri == start_line[2]
                version == start_line[3]
            IN IF ~StartsWithHTTP(version) THEN stream_close(t0)
               ELSE LET t1 == [t0 EXCEPT !.request =
                                   <<HTTPRequest(method, uri, version, headers)>>]
                        content_length == headers.ContentLength
                    IN IF Truthy(content_length)
                       THEN IF int(content_length) > max_buffer_size
                            THEN stream_close(t1)
                            ELSE LET t2 == stream_read_bytes(t1, int(content_length))
                                 IN IF headers.Expect = "100-continue"
                                    THEN stream_write(t2, Continue100, FALSE)
                                    ELSE t2
                       ELSE request_callback(t1)

on_headers(s, start_line, headers) ==
    LET t0 == reset_connection_timeout(s)
    IN IF Len(start_line) # 3 THEN stream_close(t0)
       ELSE LET method == start_line[1]
                uri == start_line[2]
                version == start_line[3]
            IN IF ~StartsWithHTTP(version) THEN stream_close(t0)
               ELSE LET t1 == [t0 EXCEPT !.request =
                                   <<HTTPRequest(method, uri, version, headers)>>]
                        content_length == headers.ContentLength
                    IN IF Truthy(content_length)
                       THEN IF int(content_length) > max_buffer_size
                            THEN stream_close(t1)
                            ELSE LET t2 == IF headers.Expect = "100-continue"
                                           THEN stream_write(t1, Continue100, FALSE)
                                           ELSE t1
                                 IN stream_read_bytes(t2, int(content_length))
                       ELSE request_callback(t1)

\* _on_request_body that stores the body and does not call the handler
on_request_body_no_call(s, data) ==
    LET t0 == reset_connection_timeout(s)
    IN IF t0.request = <<>> THEN t0
       ELSE [t0 EXCEPT !.request = <<[t0.request[1] EXCEPT !.body = data]>>]

\* _on_request_body that calls the handler and does not store the body
on_request_body_no_store(s, data) ==
    LET t0 == reset_connection_timeout(s)
    IN IF t0.request = <<>> THEN t0
       ELSE request_callback(t0)

on_request_body(s, data) ==
    LET t0 == reset_connection_timeout(s)
    IN IF t0.request = <<>> THEN t0                 \* None has no body
       ELSE request_callback(
                [t0 EXCEPT !.request = <<[t0.request[1] EXCEPT !.body = data]>>])

(***************************************************************************)
(* What the client sent, told from the input alone.                        *)
(***************************************************************************)
\* a request line of three tokens whose version is an HTTP version
WellFormedLine(start_line) ==
    Len(start_line) = 3 /\ start_line[3] \in {"HTTP/1.1", "HTTP/1.0"}

\* the Content-Length header carries a number
HasLength(headers) == headers.ContentLength \in {"0", "1", "9"}

\* the number a Content-Length header carries
LengthOf(headers) ==
    IF headers.ContentLength = "0" THEN 0
    ELSE IF headers.ContentLength = "1" THEN 1
    ELSE 9

\* n bytes of a request body
Bytes(n) == [i \in 1..n |-> "x"]

(***************************************************************************)
(* HTTPRequest.__init__ and the decoding of a form body: remote_ip and     *)
(* arguments.  A query string or a form body is the list of its name=value *)
(* pairs; arguments is a function from the names it holds to lists.        *)
(***************************************************************************)
\* pairs a query string or a form body is made of
MaxPairs == 2

\* the pairs of the query a=1&a=2&b=&c=3
Pairs == {<<"a", "1">>, <<"a", "2">>, <<"b", "">>, <<"c", "3">>}

\* the query a=1&a=2&b=&c=3
ExampleQuery == <<(<<"a", "1">>), (<<"a", "2">>), (<<"b", "">>), (<<"c", "3">>)>>

\* query strings and form bodies of at most MaxPairs pairs
PairLists == UNION {[1..n -> Pairs] : n \in 0..MaxPairs}

\* the address of the accepted socket, self.address[0]
PeerIp == "192.0.2.7"
RealIpValues == {None, "10.0.0.1"}
ForwardedForValues == {None, "10.0.0.2"}
ContentTypes ==
    {"", "application/x-www-form-urlencoded",
     "multipart/form-data; boundary=x", "multipart/form-data"}

\* escape.parse_qs_bytes: the values of every name, in the order of the
\* string, blank values kept
parse_qs_bytes(qs) ==
    LET ValuesOf(name) ==
            LET Named(p) == p[1] = name
                ps == SelectSeq(qs, Named)
            IN [i \in 1..Len(ps) |-> ps[i][2]]
    IN [name \in {qs[i][1] : i \in 1..Len(qs)} |-> ValuesOf(name)]

\* [v for v in values if v]
NonEmpty(values) ==
    LET Kept(v) == v # ""
    IN SelectSeq(values, Kept)

\* arguments.setdefault(name, [])
setdefault(arguments, name) ==
    IF name \in DOMAIN arguments THEN arguments[name] ELSE <<>>

\* httputil.parse_multipart_form_data(boundary, data, arguments, files):
\* the value of every part that is not a file is appended as it is
parse_multipart_form_data(parts, arguments) ==
    LET fields == parse_qs_bytes(parts)
    IN [name \in DOMAIN arguments \cup DOMAIN fields |->
           setdefault(arguments, name) \o setdefault(fields, name)]

\* remote_ip that asks X-Forwarded-For before X-Real-Ip
remote_ip_forwarded_first(xheaders, headers, remote_ip) ==
    IF xheaders
    THEN IF headers.XForwardedFor # None THEN headers.XForwardedFor
         ELSE IF headers.XRealIp # None THEN headers.XRealIp
         ELSE remote_ip
    ELSE remote_ip

\* self.remote_ip of HTTPRequest.__init__
remote_ip_of(xheaders, headers, remote_ip) ==
    IF xheaders
    THEN IF headers.XRealIp # None THEN headers.XRealIp
         ELSE IF headers.XForwardedFor # None THEN headers.XForwardedFor
         ELSE remote_ip
    ELSE remote_ip

\* query decoding that keeps the names whose values are all empty
query_arguments_keeps_names(query) ==
    LET arguments == parse_qs_bytes(query)
    IN [name \in DOMAIN arguments |-> NonEmpty(arguments[name])]

\* self.arguments of HTTPRequest.__init__
query_arguments(query) ==
    LET arguments == parse_qs_bytes(query)
    IN [name \in {n \in DOMAIN arguments : NonEmpty(arguments[n]) # <<>>} |->
           NonEmpty(arguments[name])]

\* the decoding of the body in _on_request_body: self._request.arguments
body_arguments(arguments, method, content_type, data) ==
    IF method \in {"POST", "PUT"}
    THEN IF content_type = "application/x-www-form-urlencoded"
         THEN LET form == parse_qs_bytes(data)
                  named == {n \in DOMAIN form : NonEmpty(form[n]) # <<>>}
              IN [name \in DOMAIN arguments \cup named |->
                     IF name \in named
                     THEN setdefault(arguments, name) \o NonEmpty(form[name])
                     ELSE arguments[name]]
         ELSE IF content_type = "multipart/form-data; boundary=x"
         THEN parse_multipart_form_data(data, arguments)
         ELSE arguments
    ELSE arguments

\* no Request has been built
Unbuilt ==
    [stage |-> "none", xheaders |-> FALSE, method |-> None,
     headers |-> [XRealIp |-> None, XForwardedFor |-> None,
                  ContentType |-> ""],
     query |-> <<>>, data |-> <<>>, remote_ip |-> None,
     query_arguments |-> <<>>, arguments |-> <<>>]

(***************************************************************************)
(* HTTPServer: the listener.  The record holds the fields of the server    *)
(* (sockets, pending_sockets, started, io_loop, ssl_options) and what the  *)
(* server has with the system and the loop: the listening sockets created  *)
(* so far, those closed, the accept handlers registered, and the outcome   *)
(* of the last accepted connection.  A listening socket is named by its    *)
(* file descriptor, the position of its entry in created_by.               *)
(***************************************************************************)
\* what ssl.wrap_socket can do with an accepted socket (lines 249-263)
WrapOutcomes ==
    {"wrapped", "SSL_ERROR_EOF", "SSLError", "ECONNABORTED", "socket.error"}

\* the elements of a list
Range(seq) == {seq[i] : i \in 1..Len(seq)}

\* HTTPServer.__init__
NewServer(ssl_options) ==
    [sockets |-> {},
     pending_sockets |-> <<>>,
     started |-> FALSE,
     io_loop |-> None,
     ssl_options |-> ssl_options,
     handlers |-> {},
     closed |-> {},
     created_by |-> <<>>,
     naccepts |-> 0,
     accepted |-> [wrap |-> None, closed |-> FALSE, stream |-> None],
     nconnections |-> 0]

\* the sockets the next netutil.bind_sockets call returns
NewSockets(w, k) == [i \in 1..k |-> Len(w.created_by) + i]

\* netutil.bind_sockets, called on behalf of operation op: k new sockets
bind_sockets(w, op, k) ==
    [w EXCEPT !.created_by = @ \o [i \in 1..k |-> op]]

\* add_sockets that registers the accept handler of the first socket only
add_sockets_first_only(w, sockets) ==
    [w EXCEPT !.io_loop = "IOLoop",
              !.sockets = @ \cup Range(sockets),
              !.handlers = @ \cup {sockets[i] : i \in 1..Len(sockets) \cap {1}}]

add_sockets(w, sockets) ==
    [w EXCEPT !.io_loop = "IOLoop",
              !.sockets = @ \cup Range(sockets),
              !.handlers = @ \cup Range(sockets)]

listen(w, k) ==
    add_sockets(bind_sockets(w, "listen", k), NewSockets(w, k))

bind(w, k) ==
    LET sockets == NewSockets(w, k)
        t == bind_sockets(w, "bind", k)
    IN IF t.started THEN add_sockets(t, sockets)
       ELSE [t EXCEPT !.pending_sockets = @ \o sockets]

start(w) ==
    IF w.started THEN w                             \* assert not self._started
    ELSE LET sockets == w.pending_sockets
         IN add_sockets([w EXCEPT !.started = TRUE,
                                  !.pending_sockets = <<>>],
                        sockets)

\* stop() that closes the sockets and leaves their accept handlers
stop_keeps_handlers(w) ==
    [w EXCEPT !.closed = @ \cup w.sockets]

stop(w) ==
    [w EXCEPT !.handlers = @ \ w.sockets,
              !.closed = @ \cup w.sockets]

\* _handle_connection that builds a plain stream on a server with TLS
handle_connection_plain(w, wrap) ==
    LET a == [w EXCEPT !.naccepts = @ + 1]
    IN [a EXCEPT !.accepted = [wrap |-> wrap, closed |-> FALSE,
                               stream |-> "IOStream"],
                 !.nconnections = @ + 1]

\* _handle_connection(connection, address): the accept handler, called with
\* a socket just accepted; wrap is what ssl.wrap_socket does with it
handle_connection(w, wrap) ==
    LET a == [w EXCEPT !.naccepts = @ + 1]
    IN IF w.ssl_options # None /\ wrap \in {"SSL_ERROR_EOF", "ECONNABORTED"}
       THEN [a EXCEPT !.accepted = [wrap |-> wrap, closed |-> TRUE,
                                    stream |-> None]]
       ELSE IF w.ssl_options # None /\ wrap # "wrapped"
       THEN [a EXCEPT !.accepted = [wrap |-> wrap, closed |-> FALSE,
                                    stream |-> None]]       \* raise
       ELSE [a EXCEPT !.accepted =
                          [wrap |-> wrap, closed |-> FALSE,
                           stream |-> IF w.ssl_options # None
                                      THEN "SSLIOStream" ELSE "IOStream"],
                      !.nconnections = @ + 1]

\* a server that listens on one socket and has accepted one connection
Serving == handle_connection(listen(NewServer(None), 1), None)

(***************************************************************************)
(* The initial state: a server configuration, and a connection just        *)
(* constructed on an accepted stream.                                      *)
(***************************************************************************)
Init ==
    /\ no_keep_alive \in BOOLEAN
    /\ connection_timeout \in {-1, TimeoutSeconds}
    /\ request = NewConnection.request
    /\ request_finished = NewConnection.request_finished
    /\ timeout_handle = NewConnection.timeout_handle
    /\ closed = NewConnection.closed
    /\ read_callback = NewConnection.read_callback
    /\ read_bytes = NewConnection.read_bytes
    /\ write_buffer = NewConnection.write_buffer
    /\ write_callback = NewConnection.write_callback
    /\ timers = NewConnection.timers
    /\ handler = NewConnection.handler
    /\ seen = NewConnection.seen
    /\ calls = NewConnection.calls
    /\ ncalls = NewConnection.ncalls
    /\ nfinished = NewConnection.nfinished
    /\ already_reading = NewConnection.already_reading
    /\ rearmed = NewConnection.rearmed
    /\ written = <<>>
    /\ nheaders = 0
    /\ ncomplete = 0
    /\ ev = <<"init">>
    /\ server = Serving
    /\ built = Unbuilt

(***************************************************************************)
(* The actions: one per callback of the stream and the loop, and one per   *)
(* call of the handler.                                                    *)
(***************************************************************************)
\* the stream has read a header block and runs _on_headers
HeadersFrom(lines, blocks) ==
    /\ ~closed
    /\ read_callback = "headers"
    /\ nheaders < MaxRequests
    /\ \E start_line \in lines, headers \in blocks :
          /\ Becomes(on_headers([Cur EXCEPT !.read_callback = None,
                                            !.calls = <<>>],
                                start_line, headers))
          /\ ncomplete' = IF WellFormedLine(start_line) /\ ~HasLength(headers)
                          THEN ncomplete + 1 ELSE ncomplete
          /\ ev' = <<"on_headers", start_line, headers>>
    /\ written' = <<>>
    /\ nheaders' = nheaders + 1
    /\ UNCHANGED <<cfgVars, server, built>>

\* a client sends any of the request lines with any of the header blocks
OnHeaders == HeadersFrom(StartLines, HeaderBlocks)

\* the stream has read the body and runs _on_request_body
OnRequestBody ==
    /\ ~closed
    /\ read_callback = "body"
    /\ Becomes(on_request_body([Cur EXCEPT !.read_callback = None],
                               Bytes(read_bytes)))
    /\ ncomplete' = ncomplete + 1
    /\ ev' = <<"on_request_body">>
    /\ UNCHANGED <<cfgVars, server, built, written, nheaders>>

\* the handler calls request.write(chunk) on the Request it was given
HandlerWrite ==
    /\ handler = "active"
    /\ Len(written) < MaxWrites
    /\ LET chunk == Chunk(Len(written) + 1)
       IN /\ Becomes(write(Cur, chunk))
          /\ written' = IF closed THEN written ELSE Append(written, chunk)
    /\ ev' = <<"write">>
    /\ UNCHANGED <<cfgVars, server, built, nheaders, ncomplete>>

\* the handler calls request.finish(): as the class documents (lines 52-56),
\* it writes its response with request.write() and then finishes the request
HandlerFinish ==
    /\ handler = "active"
    /\ Becomes(finish([Cur EXCEPT !.handler = "finished", !.seen = <<>>]))
    /\ ev' = <<"finish">>
    /\ UNCHANGED <<cfgVars, server, built, written, nheaders, ncomplete>>

\* the socket takes the next chunk of the write buffer; when the buffer has
\* drained the stream runs the write callback, _on_write_complete
WriteProgress ==
    /\ ~closed
    /\ write_buffer # <<>>
    /\ LET s == [Cur EXCEPT !.write_buffer = Tail(@)]
       IN IF s.write_buffer = <<>> /\ s.write_callback
          THEN Becomes(on_write_complete([s EXCEPT !.write_callback = FALSE]))
          ELSE Becomes(s)
    /\ ev' = <<"write_progress">>
    /\ UNCHANGED <<cfgVars, server, built, written, nheaders, ncomplete>>

\* a scheduled timeout fires and the loop runs _handle_timeout
HandleTimeout ==
    /\ timers > 0
    /\ \E mine \in BOOLEAN :
          /\ mine => timeout_handle = "live"
          /\ ~mine => timers > (IF timeout_handle = "live" THEN 1 ELSE 0)
          /\ Becomes(handle_timeout(
                 [Cur EXCEPT !.timers = @ - 1,
                             !.timeout_handle = IF mine THEN "fired" ELSE @]))
    /\ ev' = <<"handle_timeout">>
    /\ UNCHANGED <<cfgVars, server, built, written, nheaders, ncomplete>>

\* the client closes its end
PeerClose ==
    /\ ~closed
    /\ Becomes(stream_close(Cur))
    /\ ev' = <<"peer_close">>
    /\ UNCHANGED <<cfgVars, server, built, written, nheaders, ncomplete>>

Next ==
    \/ OnHeaders
    \/ OnRequestBody
    \/ HandlerWrite
    \/ HandlerFinish
    \/ WriteProgress
    \/ HandleTimeout
    \/ PeerClose

Spec == Init /\ [][Next]_vars

\* the loop runs every timeout that stays scheduled
LiveSpec == Spec /\ WF_vars(HandleTimeout)

\* the socket takes every byte handed to the stream while the stream is open
DrainSpec == Spec /\ WF_vars(WriteProgress)

(***************************************************************************)
(* The listener: the calls of the application on the server (listen, bind, *)
(* add_sockets, start, stop) and the accept handler.  ListenerSpec runs    *)
(* the listener alone; ServingSpec runs a server that listens and is       *)
(* stopped together with the connection it accepted last, driven by a      *)
(* client that sends requests without headers.                             *)
(***************************************************************************)
\* listening sockets created
MaxSockets == 2
\* connections accepted
MaxAccepts == 2

\* the request lines and the header block of the client of the listener
PlainLines == {<<"GET", "/", "HTTP/1.1">>, <<"GET", "/", "HTTP/1.0">>}
PlainBlocks == {[Connection |-> None, ContentLength |-> None, Expect |-> None]}

\* the variables of the connection
connectionVars ==
    <<connVars, streamVars, timers, handler, seen, histVars>>

\* a call that binds k sockets may be made
MayBind(k) == Len(server.created_by) + k <= MaxSockets

\* no connection has been accepted
NoConnection ==
    /\ request = Unconnected.request
    /\ request_finished = Unconnected.request_finished
    /\ timeout_handle = Unconnected.timeout_handle
    /\ closed = Unconnected.closed
    /\ read_callback = Unconnected.read_callback
    /\ read_bytes = Unconnected.read_bytes
    /\ write_buffer = Unconnected.write_buffer
    /\ write_callback = Unconnected.write_callback
    /\ timers = Unconnected.timers
    /\ handler = Unconnected.handler
    /\ seen = Unconnected.seen
    /\ calls = Unconnected.calls
    /\ ncalls = Unconnected.ncalls
    /\ nfinished = Unconnected.nfinished
    /\ already_reading = Unconnected.already_reading
    /\ rearmed = Unconnected.rearmed
    /\ written = <<>>
    /\ nheaders = 0
    /\ ncomplete = 0
    /\ ev = <<"init">>

\* a server just constructed, without or with ssl_options, and no connection
ServerInit ==
    /\ no_keep_alive \in BOOLEAN
    /\ connection_timeout \in {-1, TimeoutSeconds}
    /\ NoConnection
    /\ server \in {NewServer(None), NewServer("ssl_options")}
    /\ built = Unbuilt

\* the application calls server.listen(port)
Listen ==
    /\ \E k \in 1..2 : MayBind(k) /\ server' = listen(server, k)
    /\ ev' = <<"listen">>
    /\ UNCHANGED <<cfgVars, connectionVars, built>>

\* the application calls server.bind(port)
Bind ==
    /\ \E k \in 1..2 : MayBind(k) /\ server' = bind(server, k)
    /\ ev' = <<"bind">>
    /\ UNCHANGED <<cfgVars, connectionVars, built>>

\* the application calls server.add_sockets(netutil.bind_sockets(port))
AddSockets ==
    /\ \E k \in 1..2 :
          /\ MayBind(k)
          /\ server' = add_sockets(bind_sockets(server, "add_sockets", k),
                                   NewSockets(server, k))
    /\ ev' = <<"add_sockets">>
    /\ UNCHANGED <<cfgVars, connectionVars, built>>

\* the application calls server.start(), for the first time or again
Start ==
    /\ server' = start(server)
    /\ ev' = <<"start">>
    /\ UNCHANGED <<cfgVars, connectionVars, built>>

\* the application calls server.stop()
Stop ==
    /\ server' = stop(server)
    /\ ev' = <<"stop">>
    /\ UNCHANGED <<cfgVars, connectionVars, built>>

\* a client connects to a socket that has its accept handler on the loop,
\* and the handler runs _handle_connection; the model follows the
\* connection constructed last
HandleConnection ==
    /\ server.naccepts < MaxAccepts
    /\ server.handlers # {}
    /\ \E wrap \in IF server.ssl_options = None THEN {None} ELSE WrapOutcomes :
          LET t == handle_connection(server, wrap)
          IN /\ server' = t
             /\ ev' = <<"accept", wrap>>
             /\ IF t.nconnections > server.nconnections
                THEN /\ Becomes(NewConnection)
                     /\ written' = <<>>
                     /\ nheaders' = 0
                     /\ ncomplete' = 0
                ELSE UNCHANGED connectionVars
    /\ UNCHANGED <<cfgVars, built>>

\* the stream has read the header block of a request without headers
OnPlainHeaders == HeadersFrom(PlainLines, PlainBlocks)

\* the listener alone: every call of the application, and the accept handler
ListenerNext ==
    \/ Listen
    \/ Bind
    \/ AddSockets
    \/ Start
    \/ Stop
    \/ HandleConnection

ListenerSpec == ServerInit /\ [][ListenerNext]_vars

\* a server that listens and is stopped, with the connection it accepted
ServingNext ==
    \/ Listen
    \/ Stop
    \/ HandleConnection
    \/ OnPlainHeaders
    \/ HandlerWrite
    \/ HandlerFinish
    \/ WriteProgress
    \/ HandleTimeout

ServingSpec == ServerInit /\ [][ServingNext]_vars

(***************************************************************************)
(* The construction of a Request: HTTPRequest.__init__ on the header block *)
(* of a client, then the decoding of the body it sends.                    *)
(***************************************************************************)
\* _on_headers builds the Request (lines 375-377): the connection passes
\* the address of the accepted socket as remote_ip
BuildRequest ==
    /\ built.stage = "none"
    /\ \E xheaders \in BOOLEAN, method \in {"GET", "POST", "PUT"},
          real_ip \in RealIpValues, forwarded_for \in ForwardedForValues,
          content_type \in ContentTypes,
          query \in PairLists \cup {ExampleQuery} :
          LET headers == [XRealIp |-> real_ip,
                          XForwardedFor |-> forwarded_for,
                          ContentType |-> content_type]
          IN built' = [stage |-> "built",
                       xheaders |-> xheaders,
                       method |-> method,
                       headers |-> headers,
                       query |-> query,
                       data |-> <<>>,
                       remote_ip |-> remote_ip_of(xheaders, headers, PeerIp),
                       query_arguments |-> query_arguments(query),
                       arguments |-> query_arguments(query)]
    /\ ev' = <<"build_request">>
    /\ UNCHANGED <<cfgVars, connectionVars, server>>

\* _on_request_body decodes the body (lines 398-419) before it calls the
\* handler
DecodeBody ==
    /\ built.stage = "built"
    /\ \E data \in PairLists :
          built' = [built EXCEPT
                       !.stage = "decoded",
                       !.data = data,
                       !.arguments = body_arguments(built.arguments,
                                                    built.method,
                                                    built.headers.ContentType,
                                                    data)]
    /\ ev' = <<"decode_body">>
    /\ UNCHANGED <<cfgVars, connectionVars, server>>

RequestNext ==
    \/ BuildRequest
    \/ DecodeBody

\* a server with its default configuration, and no Request built yet
RequestInit ==
    /\ no_keep_alive = FALSE
    /\ connection_timeout = -1
    /\ NoConnection
    /\ server = NewServer(None)
    /\ built = Unbuilt

RequestSpec == RequestInit /\ [][RequestNext]_vars

(***************************************************************************)
(* A handler that does not keep to its contract: it calls write() after it *)
(* has called finish(), and finish() or write() with no request in flight. *)
(***************************************************************************)
\* the handler calls request.write(chunk) after it has called finish()
LateWrite ==
    /\ handler = "finished"
    /\ Len(written) < MaxWrites
    /\ LET chunk == Chunk(Len(written) + 1)
       IN /\ Becomes(write(Cur, chunk))
          /\ written' = IF closed \/ request = <<>> THEN written
                        ELSE Append(written, chunk)
    /\ ev' = <<"late_write">>
    /\ UNCHANGED <<cfgVars, server, built, nheaders, ncomplete>>

\* finish() is called on the connection while it has no request in flight
StrayFinish ==
    /\ handler # "active"
    /\ request = <<>>
    /\ Becomes(finish(Cur))
    /\ ev' = <<"stray_finish">>
    /\ UNCHANGED <<cfgVars, server, built, written, nheaders, ncomplete>>

MisuseNext ==
    \/ Next
    \/ LateWrite
    \/ StrayFinish

MisuseSpec == Init /\ [][MisuseNext]_vars

(***************************************************************************)
(* Auxiliary definitions of the properties.                                *)
(***************************************************************************)
\* the chunks the connection handed to the stream since the last headers
HandedChunks ==
    LET IsWrite(c) == c.op = "write"
        w == SelectSeq(calls, IsWrite)
    IN [i \in 1..Len(w) |-> w[i].arg]

\* the step runs the finish procedure
FinishProcedureRuns == nfinished' = nfinished + 1

\* the step is the arrival of a header block
HeadersArrive == ev'[1] = "on_headers"

(***************************************************************************)
(* C1: at most one Request is in flight and at most one read is            *)
(* outstanding: no read is asked while another is outstanding, a header    *)
(* read is outstanding only with no Request in flight, the handler at rest *)
(* and the stream not writing, and a body read only for a Request not yet  *)
(* dispatched; after construction a header read is scheduled only by the   *)
(* finish procedure, once the handler has called finish() and with the     *)
(* stream not writing.                                                     *)
(***************************************************************************)
C1_OneAtATime ==
    /\ ~already_reading
    /\ read_callback = "headers" =>
          request = <<>> /\ handler # "active" /\ write_buffer = <<>>
    /\ read_callback = "body" => request # <<>> /\ handler # "active"
    /\ handler = "active" => request # <<>> /\ read_callback = None

C1_ScheduledByFinish ==
    (read_callback' = "headers" /\ read_callback # "headers") =>
        /\ FinishProcedureRuns
        /\ handler' = "finished"
        /\ request # <<>> /\ request' = <<>>
        /\ write_buffer' = <<>>

\* C1: requests are serialized, in every state and at every step
C1_Serialized == []C1_OneAtATime /\ [][C1_ScheduledByFinish]_vars

\* the finish procedure, deferred behind a write, has scheduled the read of
\* the next request
C1_Witness ==
    /\ ev[1] = "write_progress"
    /\ nfinished = 1
    /\ read_callback = "headers"
    /\ ~closed

(***************************************************************************)
(* C2: the finish procedure, run on an open stream, closes the stream      *)
(* exactly when no_keep_alive is set, or the request is HTTP/1.1 with      *)
(* Connection exactly "close", or the request is not HTTP/1.1 and either   *)
(* (Content-Length present or method HEAD or GET) with Connection not      *)
(* exactly "Keep-Alive", or neither Content-Length present nor method HEAD *)
(* or GET; in every other case the stream stays open and the next header   *)
(* read is scheduled.                                                      *)
(***************************************************************************)
C2_MustClose(r) ==
    LET framed == r.headers.ContentLength # None \/ r.method \in {"HEAD", "GET"}
    IN \/ no_keep_alive
       \/ r.version = "HTTP/1.1" /\ r.headers.Connection = "close"
       \/ /\ r.version # "HTTP/1.1"
          /\ \/ framed /\ r.headers.Connection # "Keep-Alive"
             \/ ~framed

C2_Step ==
    (FinishProcedureRuns /\ ~closed) =>
        /\ closed' <=> C2_MustClose(request[1])
        /\ ~closed' => read_callback' = "headers" /\ request' = <<>>

\* C2: every run of the finish procedure takes the keep-alive decision stated
C2_KeepAliveDecision == [][C2_Step]_vars

\* a request without a body finished at once, and the connection kept open
C2_Witness ==
    /\ ev[1] = "finish"
    /\ nfinished = 1
    /\ ~closed
    /\ read_callback = "headers"
    /\ calls[1].op = "request_callback"

(***************************************************************************)
(* C3, as stated: after the finish procedure of any HTTP/1.1 request       *)
(* without "Connection: close" the stream is open and a header read is     *)
(* outstanding.                                                            *)
(***************************************************************************)
C3_Finish11(guard) ==
    (/\ FinishProcedureRuns
     /\ ~closed
     /\ guard
     /\ request[1].version = "HTTP/1.1"
     /\ request[1].headers.Connection # "close") =>
        ~closed' /\ read_callback' = "headers"

\* C3 as stated: every HTTP/1.1 request without "Connection: close" keeps
\* the connection, whatever no_keep_alive is
C3_AsStated == [][C3_Finish11(TRUE)]_vars

(***************************************************************************)
(* C3, amended: on a server without no_keep_alive, the finish procedure of *)
(* an HTTP/1.1 request without "Connection: close", run on an open stream, *)
(* leaves the stream open with a header read outstanding; and while that   *)
(* read is outstanding and no header block arrives, the stream is closed   *)
(* only by the idle timer or by the peer.                                  *)
(***************************************************************************)
C3_OnlyTimerOrPeer ==
    (read_callback = "headers" /\ ~closed /\ closed' /\ ~HeadersArrive) =>
        ev'[1] \in {"handle_timeout", "peer_close"}

\* C3 amended: without no_keep_alive, HTTP/1.1 keeps the connection until the
\* idle timer fires or the peer closes
C3_KeepAlive11 ==
    [][C3_Finish11(~no_keep_alive)]_vars /\ [][C3_OnlyTimerOrPeer]_vars

\* an HTTP/1.1 request with a body, finished, the connection awaiting the next
C3_Witness ==
    /\ ~no_keep_alive
    /\ nfinished = 1
    /\ nheaders = 1
    /\ ~closed
    /\ read_callback = "headers"
    /\ Len(calls) >= 3
    /\ calls[1].op = "read_bytes"

(***************************************************************************)
(* C4: the idle timer never closes a stream that is writing.  When it      *)
(* fires on a closed stream nothing changes; on an open stream that is     *)
(* writing the stream stays open and a new timer is armed; on an open      *)
(* stream that is not writing the stream is closed.                        *)
(***************************************************************************)
C4_Step ==
    ev'[1] = "handle_timeout" =>
        /\ closed =>
              /\ closed'
              /\ timers' = timers - 1
              /\ timeout_handle' # "live"
              /\ <<request, request_finished, read_callback, write_buffer>>'
                    = <<request, request_finished, read_callback, write_buffer>>
        /\ (~closed /\ write_buffer # <<>>) =>
              /\ ~closed'
              /\ timeout_handle' = "live"
              /\ timers' = timers
              /\ write_buffer' = write_buffer
        /\ (~closed /\ write_buffer = <<>>) => closed'

\* C4: every firing of the idle timer spares a stream that is writing
C4_TimerSparesWrites == [][C4_Step]_vars

\* the timer has fired under a response in progress and was armed again
C4_Witness ==
    /\ ev[1] = "handle_timeout"
    /\ ~closed
    /\ write_buffer # <<>>
    /\ handler = "active"
    /\ timeout_handle = "live"

(***************************************************************************)
(* C5: with connection_timeout configured, a connection that awaits        *)
(* headers and is not writing is eventually closed unless a header block   *)
(* arrives first, given that every timeout that stays scheduled fires;     *)
(* this holds for a fresh connection and after finished requests alike.    *)
(***************************************************************************)
C5_Idle ==
    /\ connection_timeout # -1
    /\ ~closed
    /\ read_callback = "headers"
    /\ write_buffer = <<>>

\* C5: an idle connection leads to a closed one, or to a header block
C5_IdleReaped == C5_Idle ~> (closed \/ read_callback # "headers")

\* a keep-alive connection, idle after a finished request, closed by the timer
C5_Witness ==
    /\ connection_timeout # -1
    /\ ev[1] = "handle_timeout"
    /\ nfinished >= 1
    /\ read_callback = "headers"
    /\ closed

(***************************************************************************)
(* C6: a header block that fails to parse (a request line that is not      *)
(* three tokens, a version that does not start with "HTTP/", or a          *)
(* Content-Length above max_buffer_size) makes the connection close the    *)
(* stream, without invoking the handler, scheduling a read or writing a    *)
(* byte, the 100-continue interim response included.                       *)
(***************************************************************************)
Malformed(start_line, headers) ==
    \/ Len(start_line) # 3
    \/ Len(start_line) = 3 /\ start_line[3] \notin {"HTTP/1.1", "HTTP/1.0"}
    \/ HasLength(headers) /\ LengthOf(headers) > max_buffer_size

C6_Step ==
    (HeadersArrive /\ Malformed(ev'[2], ev'[3])) =>
        /\ closed'
        /\ calls' = <<Call("close", None)>>
        /\ ncalls' = ncalls
        /\ handler' = handler
        /\ read_callback' = None
        /\ write_buffer' = write_buffer

\* C6: every malformed header block closes the stream and does nothing else
C6_MalformedClosesSilently == [][C6_Step]_vars

\* an oversized Content-Length with "Expect: 100-continue", refused
C6_Witness ==
    /\ ev[1] = "on_headers"
    /\ WellFormedLine(ev[2])
    /\ ev[3].ContentLength = "9"
    /\ ev[3].Expect = "100-continue"
    /\ closed

(***************************************************************************)
(* C7: a header block with "Expect: 100-continue" and a Content-Length not *)
(* above max_buffer_size makes the server write the interim response       *)
(* once, first of all its calls for the request: before the body read is   *)
(* scheduled and before the handler is invoked.  Without "Expect:          *)
(* 100-continue" the interim response is never written.                    *)
(***************************************************************************)
C7_Expected(start_line, headers) ==
    /\ WellFormedLine(start_line)
    /\ HasLength(headers)
    /\ LengthOf(headers) <= max_buffer_size
    /\ headers.Expect = "100-continue"

C7_Step ==
    HeadersArrive =>
        IF C7_Expected(ev'[2], ev'[3])
        THEN /\ calls' = <<Call("write", Continue100),
                           Call("read_bytes", LengthOf(ev'[3]))>>
             /\ write_buffer' = Append(write_buffer, Continue100)
             /\ ncalls' = ncalls
        ELSE /\ \A i \in 1..Len(calls') : calls'[i] # Call("write", Continue100)
             /\ write_buffer' = write_buffer

C7_OnlyAtHeaders ==
    \A i \in 1..Len(calls') :
        (calls'[i] = Call("write", Continue100) /\ ~HeadersArrive) =>
            (i <= Len(calls) /\ calls[i] = Call("write", Continue100))

\* C7: the interim response is written once, first, and only when expected
C7_Continue == [][C7_Step]_vars /\ [][C7_OnlyAtHeaders]_vars

\* the handler at work on a request whose interim response went out first
C7_Witness ==
    /\ handler = "active"
    /\ Len(calls) >= 3
    /\ calls[1] = Call("write", Continue100)
    /\ calls[2].op = "read_bytes"
    /\ calls[3].op = "request_callback"

(***************************************************************************)
(* C8: at every moment the handler has been invoked once for each request  *)
(* completely read (its headers, and its body when it has one), and the    *)
(* invocations exceed the completed finish procedures by 0 or 1.           *)
(***************************************************************************)
C8_OneCallPerRequest ==
    /\ ncalls = ncomplete
    /\ ncalls - nfinished \in {0, 1}
    /\ handler = "active" => ncalls = nfinished + 1

\* two request/response pairs on one connection, the second with a body
C8_Witness ==
    /\ ncalls = 2
    /\ nfinished = 2
    /\ nheaders = 2
    /\ calls[1].op = "read_bytes"

(***************************************************************************)
(* C9: the Request the handler is given has a body as long as the          *)
(* Content-Length received, and an empty body when there is none.  With a  *)
(* Content-Length the handler is not invoked when the headers arrive but   *)
(* when a read of exactly that many bytes completes; without one it is     *)
(* invoked from the header callback and no body read is scheduled.         *)
(***************************************************************************)
C9_BodySeen ==
    seen # <<>> =>
        Len(seen[1].body) =
            (IF HasLength(seen[1].headers) THEN LengthOf(seen[1].headers) ELSE 0)

C9_Step ==
    /\ (HeadersArrive /\ ~Malformed(ev'[2], ev'[3]) /\ HasLength(ev'[3])) =>
          /\ ncalls' = ncalls
          /\ read_callback' = "body"
          /\ read_bytes' = LengthOf(ev'[3])
    /\ (HeadersArrive /\ ~Malformed(ev'[2], ev'[3])
           /\ ev'[3].ContentLength = None) =>
          /\ ncalls' = ncalls + 1
          /\ read_callback' = None
          /\ seen'[1].body = <<>>
    /\ ev'[1] = "on_request_body" =>
          /\ ncalls' = ncalls + 1
          /\ read_callback' = None
          /\ Len(seen'[1].body) = read_bytes

\* C9: the handler is given a body of the length received, once it is read
C9_BodyMatchesLength == []C9_BodySeen /\ [][C9_Step]_vars

\* the handler at work on a request with a one-byte body
C9_Witness ==
    /\ handler = "active"
    /\ seen # <<>>
    /\ seen[1].headers.ContentLength = "1"
    /\ Len(seen[1].body) = 1

(***************************************************************************)
(* C10: the chunks handed to the stream for a request are the chunks the   *)
(* handler passed to write() while the stream was open, in the order of    *)
(* the calls; the one chunk that does not come from the handler is the     *)
(* 100-continue interim response.                                          *)
(***************************************************************************)
C10_WritesInOrder ==
    LET FromHandler(c) == c # Continue100
    IN SelectSeq(HandedChunks, FromHandler) = written

\* two chunks written after an interim response
C10_Witness ==
    /\ Len(written) = 2
    /\ written = <<Chunk(1), Chunk(2)>>
    /\ Len(HandedChunks) = 3
    /\ HandedChunks[1] = Continue100

(***************************************************************************)
(* C11: on a stream already closed, by the idle timer or by the peer,      *)
(* while a request is dispatched, write(chunk) forwards nothing to the     *)
(* stream, and finish() leaves the stream closed with no header read       *)
(* scheduled, whatever the keep-alive decision is.  The request is cleared *)
(* when the closed stream holds no unsent bytes; when it still holds       *)
(* bytes, finish() only sets the finished flag and the request stays.      *)
(***************************************************************************)
\* the step is a write() of the handler on a closed stream
C11_WriteOnClosed == closed /\ ev'[1] = "write"

\* the step is a finish() of the handler on a closed stream
C11_FinishOnClosed == closed /\ handler = "active" /\ ev'[1] = "finish"

\* write() on a closed stream hands nothing to the stream
C11_WriteForwardsNothing ==
    C11_WriteOnClosed =>
        /\ write_buffer' = write_buffer
        /\ calls' = calls
        /\ closed'

\* finish() on a closed stream leaves it closed and without a header read
C11_FinishStaysClosed ==
    C11_FinishOnClosed => closed' /\ read_callback' = None

\* C11, as stated: finish() on a closed stream always clears the request
C11_AsStated ==
    [][/\ C11_WriteForwardsNothing
       /\ C11_FinishStaysClosed
       /\ C11_FinishOnClosed => request' = <<>>]_vars

\* C11, amended: the request is cleared when no bytes are left unsent, and
\* stays, marked as finished, when the closed stream still holds bytes
C11_ClosedStream ==
    [][/\ C11_WriteForwardsNothing
       /\ C11_FinishStaysClosed
       /\ C11_FinishOnClosed /\ write_buffer = <<>> =>
              request' = <<>> /\ ~request_finished'
       /\ C11_FinishOnClosed /\ write_buffer # <<>> =>
              request' = request /\ request_finished']_vars

\* the handler finished on a closed stream a request that would have kept
\* the connection alive: the request is cleared, nothing was handed to the
\* stream, and the read the connection asked for is not outstanding
C11_Witness ==
    /\ closed
    /\ ev[1] = "finish"
    /\ handler = "finished"
    /\ request = <<>>
    /\ nfinished = 1
    /\ HandedChunks = <<>>
    /\ read_callback = None
    /\ \E i \in 1..Len(calls) : calls[i].op = "read_until"

(***************************************************************************)
(* C18: with the timeout enabled the idle timer is armed only while no     *)
(* bytes are being written and a header or body read is outstanding; it is *)
(* not armed while a request is dispatched to the handler and not yet      *)
(* finished.                                                               *)
(***************************************************************************)
\* the handle of the connection is a timer still scheduled on the loop
Armed == timeout_handle = "live"

\* C18, as stated: an armed timer means an open stream that is not writing,
\* a read outstanding and no request with the handler
C18_AsStated ==
    connection_timeout # -1 /\ ~closed /\ Armed =>
        /\ write_buffer = <<>>
        /\ read_callback # None
        /\ handler # "active"

(***************************************************************************)
(* C19: whenever the connection closes its stream, by the disconnect       *)
(* decision of the finish procedure, for a malformed request or at the     *)
(* expiry of the idle timer, no timer of the connection stays scheduled.   *)
(***************************************************************************)
\* the step is one in which the connection itself closes the stream
ConnectionCloses == ~closed /\ closed' /\ ev'[1] # "peer_close"

\* C19, as stated: after the connection has closed the stream no timer of
\* it is scheduled and the handle is dropped
C19_AsStated ==
    [][ConnectionCloses => timers' = 0 /\ timeout_handle' # "live"]_vars

(***************************************************************************)
(* C20: the connection has no timer scheduled when connection_timeout is   *)
(* -1 and at most one otherwise; the handle names the one scheduled timer, *)
(* and a re-arm after the timer has fired leaves exactly one.              *)
(***************************************************************************)
\* C20: the number of timers scheduled is 0 with the timeout disabled, at
\* most 1 otherwise, and a scheduled timer is the one the handle names
C20_AtMostOneTimer ==
    /\ connection_timeout = -1 => timers = 0 /\ timeout_handle = None
    /\ timers \in {0, 1}
    /\ timers = 1 <=> Armed

\* the timer fired while the stream was writing and was armed again, the
\* previous handle being a timer that has already fired
C20_Witness ==
    /\ ev[1] = "handle_timeout"
    /\ ~closed
    /\ write_buffer # <<>>
    /\ Armed
    /\ timers = 1

(***************************************************************************)
(* Auxiliary definitions of the properties of the listener.                *)
(***************************************************************************)
\* the sockets created by the call or calls of the step
Created == {fd \in 1..Len(server'.created_by) : fd > Len(server.created_by)}

\* the sockets of the active set that have their accept handler on the loop
Accepting(w) == w.sockets \cap w.handlers

\* the step is a call of the named operation of the server
Calls(op) == ev'[1] = op

(***************************************************************************)
(* C12: after stop() no socket of the active set has an accept handler, so *)
(* that no connection is accepted until the server is made to listen       *)
(* again; stop() changes nothing in the connection accepted before, and    *)
(* the handler of a request dispatched before stop() can still write and   *)
(* finish it.                                                              *)
(***************************************************************************)
\* stop() has run and no socket was added since
Stopped == server.sockets # {} /\ server.sockets \subseteq server.closed

\* stop() leaves no accept handler and touches no field of the connection
C12_StopStep ==
    Calls("stop") =>
        /\ Accepting(server') = {}
        /\ server'.sockets = server.sockets
        /\ UNCHANGED connectionVars

\* a connection is accepted only on a socket that has its handler
C12_AcceptStep ==
    Calls("accept") => Accepting(server) # {} /\ ~Stopped

\* behind a stopped listener the handler's write() and finish() act as ever
C12_HandlerStep ==
    Stopped =>
        /\ Calls("write") /\ ~closed =>
               write_buffer' = Append(write_buffer, Chunk(Len(written) + 1))
        /\ Calls("finish") /\ write_buffer = <<>> /\ handler = "active" =>
               request' = <<>> /\ nfinished' = nfinished + 1

\* C12: stop() removes every accept handler, so that no connection is
\* created, and leaves the connection alone, whose request can be finished
C12_StopOnlyStopsAccepting ==
    [][C12_StopStep /\ C12_AcceptStep /\ C12_HandlerStep]_vars

\* stop() has just run on a listening server while a request is with the
\* handler, on an open stream with the idle timer armed
C12_Witness ==
    /\ ev[1] = "stop"
    /\ Stopped
    /\ server.handlers = {}
    /\ handler = "active"
    /\ request # <<>>
    /\ ~closed
    /\ timers = 1

(***************************************************************************)
(* C13: a socket bound by bind() before start() is in the pending set and  *)
(* has no accept handler until start() runs; start() empties the pending   *)
(* set and puts every socket of it in the active set with its accept       *)
(* handler; bind() after start(), listen() and add_sockets() put their     *)
(* sockets in the active set with their accept handlers at once; a second  *)
(* start() fails its assertion and changes nothing.                        *)
(***************************************************************************)
\* pending sockets are not active and have no handler, and there are none
\* once the server is started
C13_Pending ==
    /\ Range(server.pending_sockets) \cap server.sockets = {}
    /\ Range(server.pending_sockets) \cap server.handlers = {}
    /\ server.started => server.pending_sockets = <<>>

\* what each call does with the sockets
C13_Step ==
    /\ Calls("bind") /\ ~server.started =>
           /\ Created \subseteq Range(server'.pending_sockets)
           /\ Created # {}
           /\ server'.handlers = server.handlers
           /\ server'.sockets = server.sockets
    /\ Calls("start") /\ ~server.started =>
           /\ server'.started
           /\ server'.pending_sockets = <<>>
           /\ Range(server.pending_sockets) \subseteq Accepting(server')
    /\ Calls("start") /\ server.started => server' = server
    /\ (Calls("bind") /\ server.started)
         \/ Calls("listen") \/ Calls("add_sockets") =>
           /\ Created # {}
           /\ Created \subseteq Accepting(server')
           /\ server'.pending_sockets = server.pending_sockets

\* C13: sockets bound before start() wait in the pending set, start() makes
\* them accept, every other call makes its sockets accept at once
C13_BindThenStart ==
    [][C13_Pending' /\ C13_Step]_vars

\* start() has just moved two sockets bound before it to the active set
C13_Witness ==
    /\ ev[1] = "start"
    /\ server.started
    /\ server.created_by = <<"bind", "bind">>
    /\ server.pending_sockets = <<>>
    /\ Accepting(server) = {1, 2}

(***************************************************************************)
(* C14: with ssl_options every connection the listener creates is over an  *)
(* SSLIOStream; when wrapping the accepted socket fails with SSL_ERROR_EOF *)
(* or ECONNABORTED the socket is closed and no connection is created; in   *)
(* every case the accept handlers stay registered.                         *)
(***************************************************************************)
\* what the accept handler does with the accepted socket
C14_Step ==
    Calls("accept") =>
        /\ server'.handlers = server.handlers
        /\ server'.sockets = server.sockets
        /\ server'.closed = server.closed
        /\ server.ssl_options # None =>
               /\ server'.nconnections > server.nconnections =>
                      server'.accepted.stream = "SSLIOStream"
               /\ ev'[2] \in {"SSL_ERROR_EOF", "ECONNABORTED"} =>
                      /\ server'.accepted.closed
                      /\ server'.accepted.stream = None
                      /\ server'.nconnections = server.nconnections
                      /\ UNCHANGED connectionVars

\* C14: a server with ssl_options creates connections on wrapped sockets
\* only, closes the socket whose wrapping meets EOF or an abort, and keeps
\* its accept handlers
C14_TlsAccept ==
    [][C14_Step]_vars

\* a server with ssl_options closed the socket whose wrapping met EOF,
\* after it had created a connection, and still accepts
C14_Witness ==
    /\ ev = <<"accept", "SSL_ERROR_EOF">>
    /\ server.ssl_options # None
    /\ server.accepted.closed
    /\ server.nconnections = 1
    /\ server.naccepts = 2
    /\ Accepting(server) # {}

(***************************************************************************)
(* C15: every listening socket created by listen, bind or add_sockets is   *)
(* closed once stop() has run, whether or not start() was called before.   *)
(***************************************************************************)
\* C15, as stated: after stop() every socket created so far is closed
C15_AsStated ==
    [][Calls("stop") =>
          \A fd \in 1..Len(server'.created_by) : fd \in server'.closed]_vars

(***************************************************************************)
(* C16: remote_ip of a Request is, on a server with xheaders, the          *)
(* X-Real-Ip header if the client sent one, else the X-Forwarded-For       *)
(* header if it sent one, else the address of the accepted socket; on a    *)
(* server without xheaders it is the address of the accepted socket        *)
(* whatever headers the client sent.                                       *)
(***************************************************************************)
\* C16: remote_ip is the first of X-Real-Ip, X-Forwarded-For and the peer
\* with xheaders, and the peer without
C16_RemoteIp ==
    built.stage # "none" =>
        LET h == built.headers
        IN /\ ~built.xheaders => built.remote_ip = PeerIp
           /\ built.xheaders /\ h.XRealIp # None =>
                  built.remote_ip = h.XRealIp
           /\ built.xheaders /\ h.XRealIp = None /\ h.XForwardedFor # None =>
                  built.remote_ip = h.XForwardedFor
           /\ built.xheaders /\ h.XRealIp = None /\ h.XForwardedFor = None =>
                  built.remote_ip = PeerIp

\* a client behind a proxy that sets both headers
C16_Witness ==
    /\ built.stage = "built"
    /\ built.xheaders
    /\ built.headers.XRealIp = "10.0.0.1"
    /\ built.headers.XForwardedFor = "10.0.0.2"
    /\ built.remote_ip = "10.0.0.1"

(***************************************************************************)
(* C17: in the arguments of a Request no name maps to an empty list and no *)
(* list holds an empty value; the query a=1&a=2&b=&c=3 gives a: [1, 2] and *)
(* c: [3]; the values of a form body for a name the query has already      *)
(* given come after the values of the query.                               *)
(***************************************************************************)
\* no name with an empty list, no empty value
C17_NoEmpty(arguments) ==
    \A name \in DOMAIN arguments :
        /\ arguments[name] # <<>>
        /\ \A i \in 1..Len(arguments[name]) : arguments[name][i] # ""

\* the body of the Request was handed to the multipart decoder
C17_Multipart ==
    /\ built.stage = "decoded"
    /\ built.method \in {"POST", "PUT"}
    /\ built.headers.ContentType = "multipart/form-data; boundary=x"

\* the body of the Request was decoded as a form
C17_Form ==
    /\ built.stage = "decoded"
    /\ built.method \in {"POST", "PUT"}
    /\ built.headers.ContentType = "application/x-www-form-urlencoded"

\* the non-empty values of a name in a form body, in the order of the body
C17_FormValues(name) ==
    LET Given(p) == p[1] = name /\ p[2] # ""
        ps == SelectSeq(built.data, Given)
    IN [i \in 1..Len(ps) |-> ps[i][2]]

\* the example of the query, and the order of the values of a form
C17_Decoding ==
    /\ built.stage = "built" /\ built.query = ExampleQuery =>
           /\ DOMAIN built.arguments = {"a", "c"}
           /\ built.arguments["a"] = <<"1", "2">>
           /\ built.arguments["c"] = <<"3">>
    /\ C17_Form =>
           \A name \in DOMAIN built.arguments :
               built.arguments[name] =
                   setdefault(built.query_arguments, name)
                       \o C17_FormValues(name)

\* C17, as stated: the arguments of every Request are free of empty lists
\* and of empty values
C17_AsStated ==
    built.stage # "none" => C17_NoEmpty(built.arguments) /\ C17_Decoding

\* C17, amended: the same of every Request whose body was not handed to the
\* multipart decoder
C17_NoEmptyArguments ==
    built.stage # "none" /\ ~C17_Multipart =>
        C17_NoEmpty(built.arguments) /\ C17_Decoding

\* a form body a=2&b=&a=1 decoded after the query a=1&a=2: the values of
\* the form come after those of the query, and b is not a name
C17_Witness ==
    /\ C17_Form
    /\ built.query = <<(<<"a", "1">>), (<<"a", "2">>)>>
    /\ built.data = <<(<<"b", "">>), (<<"a", "1">>)>>
    /\ DOMAIN built.arguments = {"a"}
    /\ built.arguments["a"] = <<"1", "2", "1">>

(***************************************************************************)
(* C21: with the timeout enabled every event on a connection (header read, *)
(* body read, write completion, timer fire) arms the idle timer again,     *)
(* unless the event closes the stream.                                     *)
(***************************************************************************)
\* the step is the completion of a write: the buffer drains and the stream
\* runs _on_write_complete
WriteCompletes ==
    /\ ev'[1] = "write_progress"
    /\ write_callback
    /\ write_buffer' = <<>>

\* the step is one of the four events, on an open stream
ConnectionEvent ==
    /\ ~closed
    /\ \/ ev'[1] \in {"on_headers", "on_request_body", "handle_timeout"}
       \/ WriteCompletes

\* C21, as stated: an event that leaves the stream open has called
\* add_timeout
C21_AsStated ==
    [][connection_timeout # -1 /\ ConnectionEvent /\ ~closed' => rearmed']_vars

(***************************************************************************)
(* C22: once the handler has called finish() for a request, a later        *)
(* write(chunk) fails the assertion and hands nothing to the stream,       *)
(* whether the finish procedure ran at once or waits for a write still in  *)
(* progress; write() and finish() with no request in flight are rejected   *)
(* in the same way.                                                        *)
(***************************************************************************)
\* the call of the step is rejected: nothing of the connection or of its
\* stream changes, and the stream is handed nothing
Rejected ==
    /\ UNCHANGED <<connVars, streamVars, timers>>
    /\ calls' = calls

\* C22, as stated: every write() after finish(), and every finish() with no
\* request in flight, is rejected
C22_AsStated ==
    [][ev'[1] \in {"late_write", "stray_finish"} => Rejected]_vars

(***************************************************************************)
(* C23: when the handler has called finish() and the stream stays open and *)
(* sends all it was handed, the finish procedure runs in the end, also     *)
(* when the only write in progress at the call was the interim response    *)
(* 100 (Continue), which is written without a callback.                    *)
(***************************************************************************)
\* finish() was called and the finish procedure has not run: it waits
FinishDeferred == request_finished /\ request # <<>>

\* C23, as stated: a finish procedure that waits on a stream that sends its
\* bytes runs, unless the stream is closed
C23_AsStated ==
    (FinishDeferred /\ ~closed) ~> (~FinishDeferred \/ closed)

=============================================================================
